---- MODULE Spec2Model ----
(***************************************************************************)
(* A model of pymeta/builder.py: the TreeBuilder constructors, the         *)
(* PythonWriter lowering methods working on one writer instance, grammar   *)
(* assembly (makeGrammar) and the rule units it generates.                 *)
(*                                                                         *)
(* Python text is modelled by TLA+ strings built the way the code formats  *)
(* them; a Python exception is the name of its class in the field err.     *)
(***************************************************************************)
EXTENDS Integers, Sequences, FiniteSets, TLC

VARIABLES
    tree,           \* PythonWriter.tree, the constructor's argument
    lines,          \* PythonWriter.lines, the step buffer
    gensymCounter,  \* PythonWriter.gensymCounter
    names,          \* history: every name _gensym has returned, in order
    thunks,         \* history: the name of every thunk _newThunkFor was called for
    call,           \* the last operation called and its arguments
    ret,            \* what the last operation returned or raised
    before,         \* lines, gensymCounter, thunks and sysModules when the last
                    \* operation began
    attrs,          \* the attributes set on the writer after __init__
    sysModules,     \* sys.modules: the registered grammar modules by name
    heap,           \* the _locals dicts allocated by rule invocations, by identity
    locals,         \* self.locals of the parser: rule name -> identity of a dict
    frames,         \* the stack of running rule invocations
    invs            \* history: the rule and the dict of every invocation started

writerVars == <<tree, lines, gensymCounter, names, thunks>>

grammarVars == <<attrs, sysModules>>

parserVars == <<heap, locals, frames, invs>>

vars == <<writerVars, grammarVars, parserVars, call, ret, before>>

(***************************************************************************)
(* Bounds of the model.                                                    *)
(***************************************************************************)
MaxGensym == 2      \* calls are made only while gensymCounter < MaxGensym
MaxInvocations == 3 \* rule invocations started in one behaviour

None == "None"      \* Python's None as a returned value
NoErr == ""         \* no exception

(***************************************************************************)
(* TreeBuilder: one constructor per node kind, a Python list whose first   *)
(* element is the kind.                                                    *)
(***************************************************************************)
TreeBuilder_makeGrammar(rules) == <<"Grammar", rules>>
TreeBuilder_rule(expressions) == <<"Rule", expressions>>
TreeBuilder_apply(ruleName, codeName, exprs) == <<"Apply", ruleName, codeName, exprs>>
TreeBuilder_exactly(expr) == <<"Exactly", expr>>
TreeBuilder_many(expr) == <<"Many", expr>>
TreeBuilder_many1(expr) == <<"Many1", expr>>
TreeBuilder_optional(expr) == <<"Optional", expr>>
TreeBuilder_or(exprs) == <<"Or">> \o exprs
TreeBuilder_not(expr) == <<"Not", expr>>
TreeBuilder_lookahead(expr) == <<"Lookahead", expr>>
TreeBuilder_sequence(exprs) == <<"And", exprs>>
TreeBuilder_bind(expr, name) == <<"Bind", name, expr>>
TreeBuilder_pred(expr) == <<"Predicate", expr>>
TreeBuilder_action(expr) == <<"Action", expr>>
TreeBuilder_listpattern(exprs) == <<"List", exprs>>
TreeBuilder_compilePythonExpr(name, expr) == <<"Python", name, expr>>

(***************************************************************************)
(* The attributes a PythonWriter has: the methods of the class and the     *)
(* fields __init__ sets.  Looking up any other attribute raises            *)
(* AttributeError.                                                         *)
(***************************************************************************)
Attributes ==
    {"tree", "lines", "gensymCounter",
     "output", "_generateNode", "_gensym", "_newThunkFor", "_expr", "_indent",
     "_return", "_function", "_suite", "makeGrammar", "compilePythonExpr",
     "generate_Apply", "generate_Exactly", "many", "many1", "optional", "_or",
     "_not", "lookahead", "generate_And", "bind", "pred", "action", "listpattern"}

(***************************************************************************)
(* The state of the writer while one operation runs: its fields, the       *)
(* histories, the pending exception and the value last returned.           *)
(***************************************************************************)
Raise(w, e) == [w EXCEPT !.err = e, !.value = None]

Return(w, v) == [w EXCEPT !.value = v]

Failed(w) == w.err # NoErr

\* self.<a>: the lookup of an attribute on the writer
getattr(w, a) ==
    IF a \in Attributes \cup attrs THEN w ELSE Raise(w, "AttributeError")

RECURSIVE join(_, _)
\* sep.join(seq)
join(sep, seq) ==
    IF seq = <<>> THEN ""
    ELSE IF Len(seq) = 1 THEN seq[1]
    ELSE seq[1] \o sep \o join(sep, Tail(seq))

\* '%r' of a plain string
repr(s) == "'" \o s \o "'"

\* the lines str.isspace() is true of, among the lines the model handles
SpaceLines == {" ", "    ", "\n", "\n\n"}

isspace(line) == line \in SpaceLines

\* the lines whose strip() starts with "return", among the lines the model handles
ReturnLines == {"return y", "    return y"}

startswithReturn(ex) == ex \in ReturnLines

\* _gensym with the increment of gensymCounter forgotten
gensymNoIncrement(w, name) ==
    LET n == "_G_" \o name \o "_" \o ToString(w.gensymCounter)
    IN  [w EXCEPT !.names = Append(@, n), !.value = n]

_gensym(w, name) ==
    LET c == w.gensymCounter + 1
        n == "_G_" \o name \o "_" \o ToString(c)
    IN  [w EXCEPT !.gensymCounter = c, !.names = Append(@, n), !.value = n]

_indent(line) == IF isspace(line) THEN "\n" ELSE "    " \o line

_return(ex) == IF startswithReturn(ex) THEN ex ELSE "return " \o ex

\* body is not empty: body[-1] of an empty list is an IndexError (see _newThunkFor)
_function(head, body) ==
    <<head>> \o [i \in 1..(Len(body) - 1) |-> _indent(body[i])]
             \o <<_indent(_return(body[Len(body)]))>>

_suite(head, body) == <<head>> \o [i \in 1..Len(body) |-> _indent(body[i])]

_newThunkFor(w, name, expr) ==
    LET g == _gensym(w, name)
        fname == g.value
        t == [g EXCEPT !.thunks = Append(@, fname)]
    IN  IF expr = <<>> THEN Raise(t, "IndexError")
        ELSE Return(t, <<_function("def " \o fname \o "():", expr), fname>>)

_expr(w, typ, e) ==
    LET g == _gensym(w, typ)
        name == g.value
    IN  Return([g EXCEPT !.lines = Append(@, name \o " = " \o e)], name)

compilePythonExpr(w, expr) ==
    _expr(w, "expr", "eval(" \o repr(expr) \o ", self.globals, _locals)")

\* generate_Apply with ruleName, not codeName, handed to superApply
applyWithRuleName(w, ruleName, codeName, args) ==
    IF ruleName = "super"
    THEN _expr(w, "apply",
               "self.superApply(\"" \o ruleName \o "\", " \o join(", ", args) \o ")")
    ELSE _expr(w, "apply",
               "self.apply(\"" \o ruleName \o "\", " \o join(", ", args) \o ")")

generate_Apply(w, ruleName, codeName, args) ==
    IF ruleName = "super"
    THEN _expr(w, "apply",
               "self.superApply(\"" \o codeName \o "\", " \o join(", ", args) \o ")")
    ELSE _expr(w, "apply",
               "self.apply(\"" \o ruleName \o "\", " \o join(", ", args) \o ")")

generate_Exactly(w, literal) ==
    _expr(w, "exactly", "self.exactly(" \o repr(literal) \o ")")

\* fn, fname = self._newThunkFor(...); return self.sequence([...]): the lookup of
\* self.sequence comes before the arguments of the call are evaluated
many(w, expr) ==
    LET t == _newThunkFor(w, "many", expr)
    IN  IF Failed(t) THEN t ELSE getattr(t, "sequence")

many1(w, expr) ==
    LET t == _newThunkFor(w, "many", expr)
    IN  IF Failed(t) THEN t ELSE getattr(t, "sequence")

RECURSIVE thunksFor(_, _, _)
\* [self._newThunkFor(name, expr) for expr in exprs], stopping at an exception
thunksFor(w, name, exprs) ==
    IF exprs = <<>> \/ Failed(w) THEN w
    ELSE thunksFor(_newThunkFor(w, name, Head(exprs)), name, Tail(exprs))

_or(w, exprs) ==
    IF Len(exprs) > 1
    THEN LET t == thunksFor(w, "_or", exprs)
         IN  IF Failed(t) THEN t ELSE getattr(t, "sequence")
    ELSE IF exprs = <<>> THEN Raise(w, "IndexError")
    ELSE Return(w, exprs[1])

optional(w, expr) == _or(w, <<expr, <<"None">>>>)

_not(w, expr) ==
    LET t == _newThunkFor(w, "_not", expr)
    IN  IF Failed(t) THEN t ELSE getattr(t, "sequence")

lookahead(w, expr) ==
    LET t == _newThunkFor(w, "lookahead", expr)
    IN  IF Failed(t) THEN t ELSE getattr(t, "sequence")

\* bind beginning like its sibling methods, with a thunk for its expression
bindWithThunk(w, exprs, name) ==
    LET t == _newThunkFor(w, "bind", exprs)
    IN  IF Failed(t) THEN t ELSE getattr(t, "sequence")

bind(w, exprs, name) ==
    IF exprs = <<>> THEN Raise(w, "IndexError") ELSE getattr(w, "sequence")

pred(w, expr) ==
    LET t == _newThunkFor(w, "pred", <<expr>>)
    IN  IF Failed(t) THEN t ELSE getattr(t, "sequence")

action(w, expr) == Return(w, <<expr>>)

listpattern(w, expr) ==
    LET t == _newThunkFor(w, "listpattern", expr)
    IN  IF Failed(t) THEN t ELSE getattr(t, "sequence")

RECURSIVE _generateNode(_, _)
RECURSIVE forEx(_, _, _)

\* for ex in exprs: v = self._generateNode(ex), and then return v.  assigned says
\* whether v has been assigned; w.value holds v
forEx(w, exprs, assigned) ==
    IF Failed(w) THEN w
    ELSE IF exprs = <<>>
         THEN IF assigned THEN w ELSE Raise(w, "UnboundLocalError")
         ELSE forEx(_generateNode(w, Head(exprs)), Tail(exprs), TRUE)

generate_And(w, exprs) == forEx(w, exprs, FALSE)

\* _generateNode passing over a node that has no generate_ method (getattr with a
\* default) instead of raising
generateNodeOrSkip(w, node) ==
    LET name == node[1]
        args == Tail(node)
        m == getattr(w, "generate_" \o name)
    IN  IF Failed(m) THEN Return(w, None)
        ELSE CASE name = "Apply" -> generate_Apply(w, args[1], args[2], args[3])
               [] name = "Exactly" -> generate_Exactly(w, args[1])
               [] name = "And" -> generate_And(w, args[1])

\* the nodes are those of TreeBuilder, so a method that exists is called with the
\* number of arguments it takes
_generateNode(w, node) ==
    LET name == node[1]
        args == Tail(node)
        m == getattr(w, "generate_" \o name)
    IN  IF Failed(m) THEN m
        ELSE CASE name = "Apply" -> generate_Apply(w, args[1], args[2], args[3])
               [] name = "Exactly" -> generate_Exactly(w, args[1])
               [] name = "And" -> generate_And(w, args[1])

output(w) ==
    LET r == _generateNode(w, tree)
    IN  IF Failed(r) THEN r
        ELSE LET a == [r EXCEPT !.lines = Append(@, r.value)]
             IN  Return(a, join("\n", a.lines))

(***************************************************************************)
(* Grammar assembly.  makeGrammar reads self.name, self.superclass and     *)
(* self.globals, which __init__ does not set: the caller has set them on   *)
(* the writer (attrs) or the lookup raises AttributeError.                 *)
(***************************************************************************)
GrammarName == "G"              \* self.name, when set
SuperclassName == "OMetaBase"   \* self.superclass.__name__, when set

\* prologue with the rule's name left out of the key of self.locals
prologueOneKey(name) ==
    <<"_locals = {'self': self}", "self.locals['rule'] = _locals">>

\* the first two statements of every rule unit
prologue(name) ==
    <<"_locals = {'self': self}", "self.locals[" \o repr(name) \o "] = _locals">>

ruleFunction(name, body) ==
    _function("def rule_" \o name \o "(self):", prologue(name) \o body)

RECURSIVE chain(_)
\* itertools.chain(*seqs)
chain(seqs) == IF seqs = <<>> THEN <<>> ELSE Head(seqs) \o chain(Tail(seqs))

\* statements compile() rejects, among the lines the model handles
BadStatements == {"x = ("}

\* compile(source, filename, "exec") succeeds: the class has a body and no
\* statement of a rule is malformed
compiles(rules) ==
    /\ rules # <<>>
    /\ \A i \in 1..Len(rules) : \A k \in 1..Len(rules[i][2]) :
           rules[i][2][k] \notin BadStatements

\* the methods of the class the source defines: a later def of a name replaces
\* an earlier one
classUnits(rules) ==
    [n \in {rules[i][1] : i \in 1..Len(rules)} |->
        LET last == CHOOSE i \in 1..Len(rules) :
                        /\ rules[i][1] = n
                        /\ \A j \in (i + 1)..Len(rules) : rules[j][1] # n
        IN  ruleFunction(n, rules[last][2])]

\* makeGrammar with the module registered before its source is compiled
makeGrammarRegisterFirst(g, rules, loads) ==
    LET fns == [i \in 1..Len(rules) |->
                    ruleFunction(rules[i][1], rules[i][2]) \o <<"\n\n">>]
        a == getattr(getattr(g, "name"), "superclass")
        source == join("\n", _suite("class " \o GrammarName \o "("
                                        \o SuperclassName \o "):", chain(fns)))
        modname == "pymeta_grammar__" \o GrammarName
        b == getattr(a, "globals")
        mod == [source |-> source, units |-> classUnits(rules)]
        r == [b EXCEPT !.sysModules = (modname :> mod) @@ @]
    IN  IF Failed(a) THEN a
        ELSE IF Failed(b) THEN b
        ELSE IF ~compiles(rules) THEN Raise(r, "SyntaxError")
        ELSE IF ~loads THEN Raise(r, "TypeError")
        ELSE Return(r, "class " \o GrammarName)

\* loads: whether eval(code, mod.__dict__), the execution of the class statement,
\* returns or raises
makeGrammar(g, rules, loads) ==
    LET fns == [i \in 1..Len(rules) |->
                    ruleFunction(rules[i][1], rules[i][2]) \o <<"\n\n">>]
        a == getattr(getattr(g, "name"), "superclass")
        source == join("\n", _suite("class " \o GrammarName \o "("
                                        \o SuperclassName \o "):", chain(fns)))
        modname == "pymeta_grammar__" \o GrammarName
        b == getattr(a, "globals")
        mod == [source |-> source, units |-> classUnits(rules)]
    IN  IF Failed(a) THEN a
        ELSE IF Failed(b) THEN b
        ELSE IF ~compiles(rules) THEN Raise(b, "SyntaxError")
        ELSE IF ~loads THEN Raise(b, "TypeError")
        ELSE Return([b EXCEPT !.sysModules = (modname :> mod) @@ @],
                    "class " \o GrammarName)

(***************************************************************************)
(* The rule units at run time: what the statements makeGrammar and bind    *)
(* generate do when a parser executes them.  st is the parser state of one *)
(* invocation: the dicts allocated, self.locals, the dict _locals names (0 *)
(* while unassigned) and the number of the invocation.                     *)
(***************************************************************************)
RuleNames == {"a", "b"}

\* the keys a statement self.locals[<key>] = _locals may name
LocalsKeys == RuleNames \cup {"rule"}

exec(line, st) ==
    IF line = "    _locals = {'self': self}"
    THEN [st EXCEPT !.heap = Append(@, "self" :> "self"), !.scope = Len(st.heap) + 1]
    ELSE IF \E k \in LocalsKeys :
                line = "    self.locals[" \o repr(k) \o "] = _locals"
    THEN LET k == CHOOSE k \in LocalsKeys :
                      line = "    self.locals[" \o repr(k) \o "] = _locals"
         IN  [st EXCEPT !.locals = (k :> st.scope) @@ @]
    ELSE IF line = "    _locals['d'] = x" /\ st.scope > 0
    THEN [st EXCEPT !.heap[st.scope] = ("d" :> "x of " \o ToString(st.inv)) @@ @]
    ELSE st

(***************************************************************************)
(* The inputs of the model.                                                *)
(***************************************************************************)
ExactlyA == TreeBuilder_exactly("a")
ExactlyB == TreeBuilder_exactly("b")

\* Apply nodes: 'super' as ruleName marks parent dispatch, codeName is then the
\* rule being compiled; the arguments are host-expression texts
ArgLists == {<<>>, <<"x", "y">>}

ApplyNodes ==
    {TreeBuilder_apply(r, "num", a) : r \in {"super", "digit"}, a \in ArgLists}

SuperX == TreeBuilder_apply("super", "num", <<"x">>)

\* one node of every kind TreeBuilder constructs
BuilderNodes ==
    ApplyNodes \cup
    {ExactlyA, ExactlyB,
     TreeBuilder_makeGrammar(<< <<"num", TreeBuilder_rule(ExactlyA)>> >>),
     TreeBuilder_rule(ExactlyA),
     TreeBuilder_many(ExactlyA),
     TreeBuilder_many1(ExactlyA),
     TreeBuilder_optional(ExactlyA),
     TreeBuilder_or(<<ExactlyA, ExactlyB>>),
     TreeBuilder_not(ExactlyA),
     TreeBuilder_lookahead(ExactlyA),
     TreeBuilder_sequence(<<ExactlyA, ExactlyB>>),
     TreeBuilder_bind(ExactlyA, "d"),
     TreeBuilder_pred(TreeBuilder_compilePythonExpr("num", "d")),
     TreeBuilder_action("d"),
     TreeBuilder_listpattern(ExactlyA),
     TreeBuilder_compilePythonExpr("num", "d")}

MaxAnd == 2         \* an And node of the inputs has at most MaxAnd children

\* the children the And nodes of the inputs are made of
Kids ==
    {ExactlyA, SuperX, TreeBuilder_many(ExactlyA),
     TreeBuilder_sequence(<<ExactlyB>>), TreeBuilder_sequence(<<>>)}

AndNodes ==
    {TreeBuilder_sequence(k) : k \in UNION {[1..n -> Kids] : n \in 0..MaxAnd}}

Nodes == BuilderNodes \cup AndNodes

\* the trees a writer is constructed with
RootTrees ==
    {TreeBuilder_sequence(<<ExactlyA, SuperX>>),
     TreeBuilder_sequence(<<ExactlyA, TreeBuilder_many(ExactlyA)>>),
     TreeBuilder_listpattern(ExactlyA)}

\* a lowered expression, as the older builder methods take it: a list of lines
Exprs == {<<"x">>, <<"x", "return y">>}

\* the lowered bodies of rules, as makeGrammar takes them
BodyPlain == <<"x">>
BodyStore == <<"_locals['d'] = x", "d">>
BodyBad == <<"x = (">>

\* the rule lists makeGrammar is called with
RuleLists ==
    {<<>>,
     << <<"a", BodyStore>> >>,
     << <<"a", BodyPlain>>, <<"b", BodyStore>> >>,
     << <<"a", BodyStore>>, <<"b", BodyBad>> >>,
     << <<"b", BodyBad>>, <<"b", BodyPlain>> >>}

RECURSIVE Kinds(_)
RECURSIVE KindsOfAll(_)

\* the kinds of the nodes of a tree
KindsOfAll(nodes) ==
    IF nodes = <<>> THEN {} ELSE Kinds(Head(nodes)) \cup KindsOfAll(Tail(nodes))

Kinds(node) ==
    LET kind == node[1]
    IN  {kind} \cup
        CASE kind \in {"Many", "Many1", "Optional", "Not", "Lookahead", "Predicate",
                       "List", "Rule"} -> Kinds(node[2])
          [] kind = "Bind" -> Kinds(node[3])
          [] kind = "And" -> KindsOfAll(node[2])
          [] kind = "Or" -> KindsOfAll(Tail(node))
          [] kind = "Grammar" -> KindsOfAll([i \in 1..Len(node[2]) |-> node[2][i][2]])
          [] OTHER -> {}

(***************************************************************************)
(* The writer as a state machine: every action is one call of a method on  *)
(* the one writer instance.                                                *)
(***************************************************************************)
Writer ==
    [lines |-> lines, gensymCounter |-> gensymCounter, names |-> names,
     thunks |-> thunks, err |-> NoErr, value |-> None]

Init ==
    /\ tree \in RootTrees
    /\ lines = <<>>
    /\ gensymCounter = 0
    /\ names = <<>>
    /\ thunks = <<>>
    /\ call = [op |-> "__init__", arg |-> tree]
    /\ ret = [err |-> NoErr, value |-> None]
    /\ before = [lines |-> <<>>, gensymCounter |-> 0, thunks |-> <<>>,
                 sysModules |-> <<>>]
    /\ attrs = {}
    /\ sysModules = <<>>
    /\ heap = <<>>
    /\ locals = <<>>
    /\ frames = <<>>
    /\ invs = <<>>

\* the call op(arg) ends in the writer state r
Called(op, arg, r) ==
    /\ gensymCounter < MaxGensym
    /\ lines' = r.lines
    /\ gensymCounter' = r.gensymCounter
    /\ names' = r.names
    /\ thunks' = r.thunks
    /\ call' = [op |-> op, arg |-> arg]
    /\ ret' = [err |-> r.err, value |-> r.value]
    /\ before' = [lines |-> lines, gensymCounter |-> gensymCounter, thunks |-> thunks,
                  sysModules |-> sysModules]
    /\ UNCHANGED <<tree, grammarVars, parserVars>>

Output == Called("output", tree, output(Writer))

GenerateNode ==
    \E node \in Nodes : Called("_generateNode", node, _generateNode(Writer, node))

CompilePythonExpr ==
    \E expr \in {"d", "d + 1"} :
        Called("compilePythonExpr", expr, compilePythonExpr(Writer, expr))

Many == \E expr \in Exprs : Called("many", expr, many(Writer, expr))

Many1 == \E expr \in Exprs : Called("many1", expr, many1(Writer, expr))

Optional == \E expr \in Exprs : Called("optional", expr, optional(Writer, expr))

Or ==
    \E exprs \in UNION {[1..n -> Exprs \cup {<<>>}] : n \in 0..2} :
        Called("_or", exprs, _or(Writer, exprs))

Not == \E expr \in Exprs : Called("_not", expr, _not(Writer, expr))

Lookahead ==
    \E expr \in Exprs : Called("lookahead", expr, lookahead(Writer, expr))

Bind ==
    \E exprs \in Exprs \cup {<<>>}, name \in {"d"} :
        Called("bind", <<exprs, name>>, bind(Writer, exprs, name))

Pred == \E expr \in {"d", "d + 1"} : Called("pred", expr, pred(Writer, expr))

Action == \E expr \in {"d", "d + 1"} : Called("action", expr, action(Writer, expr))

Listpattern ==
    \E expr \in Exprs : Called("listpattern", expr, listpattern(Writer, expr))

\* the writer of a grammar: the caller may have set name, superclass and globals
InitGrammar ==
    /\ tree \in {ExactlyA}
    /\ lines = <<>>
    /\ gensymCounter = 0
    /\ names = <<>>
    /\ thunks = <<>>
    /\ call = [op |-> "__init__", arg |-> tree]
    /\ ret = [err |-> NoErr, value |-> None]
    /\ before = [lines |-> <<>>, gensymCounter |-> 0, thunks |-> <<>>,
                 sysModules |-> <<>>]
    /\ attrs \in {{}, {"name", "superclass"}, {"name", "superclass", "globals"}}
    /\ sysModules = <<>>
    /\ heap = <<>>
    /\ locals = <<>>
    /\ frames = <<>>
    /\ invs = <<>>

Observed(op, arg, r) ==
    /\ call' = [op |-> op, arg |-> arg]
    /\ ret' = [err |-> r.err, value |-> r.value]
    /\ before' = [lines |-> lines, gensymCounter |-> gensymCounter, thunks |-> thunks,
                  sysModules |-> sysModules]

MakeGrammar ==
    \E rules \in RuleLists, loads \in BOOLEAN :
        LET g == [sysModules |-> sysModules, err |-> NoErr, value |-> None]
            r == makeGrammar(g, rules, loads)
        IN  /\ sysModules' = r.sysModules
            /\ Observed("makeGrammar", rules, r)
            /\ UNCHANGED <<writerVars, attrs, parserVars>>

Module == "pymeta_grammar__" \o GrammarName

\* a parser of the registered grammar calls rule_<r>: the call and the two
\* statements of the prologue, between which nothing else runs
Invoke ==
    \E r \in RuleNames :
        /\ Len(invs) < MaxInvocations
        /\ Module \in DOMAIN sysModules
        /\ r \in DOMAIN sysModules[Module].units
        /\ LET unit == sysModules[Module].units[r]
               st0 == [heap |-> heap, locals |-> locals, scope |-> 0,
                       inv |-> Len(invs) + 1]
               st == exec(unit[3], exec(unit[2], st0))
           IN  /\ heap' = st.heap
               /\ locals' = st.locals
               /\ frames' = Append(frames, [rule |-> r, unit |-> unit, pc |-> 4,
                                            scope |-> st.scope, inv |-> st.inv])
               /\ invs' = Append(invs, [rule |-> r, scope |-> st.scope])
        /\ Observed("rule", r, [err |-> NoErr, value |-> None])
        /\ UNCHANGED <<writerVars, grammarVars>>

\* the innermost invocation executes its next statement; the last one returns
Step ==
    /\ frames # <<>>
    /\ LET n == Len(frames)
           top == frames[n]
           st == exec(top.unit[top.pc],
                      [heap |-> heap, locals |-> locals, scope |-> top.scope,
                       inv |-> top.inv])
       IN  IF top.pc = Len(top.unit)
           THEN /\ frames' = SubSeq(frames, 1, n - 1)
                /\ UNCHANGED <<heap, locals>>
                /\ Observed("return", top.rule, [err |-> NoErr, value |-> None])
           ELSE /\ frames' = [frames EXCEPT ![n].pc = @ + 1]
                /\ heap' = st.heap
                /\ locals' = st.locals
                /\ Observed("statement", top.rule, [err |-> NoErr, value |-> None])
    /\ UNCHANGED <<writerVars, grammarVars, invs>>

\* assembling grammars and running their rules
NextGrammar ==
    \/ MakeGrammar
    \/ Invoke
    \/ Step

SpecGrammar == InitGrammar /\ [][NextGrammar]_vars

\* lowering trees: output() on the writer's tree and _generateNode on any node
Next ==
    \/ Output
    \/ GenerateNode

Spec == Init /\ [][Next]_vars

\* output() and the builder methods of the writer, called one after another
NextMethods ==
    \/ Output
    \/ CompilePythonExpr
    \/ Many
    \/ Many1
    \/ Optional
    \/ Or
    \/ Not
    \/ Lookahead
    \/ Bind
    \/ Pred
    \/ Action
    \/ Listpattern

SpecMethods == Init /\ [][NextMethods]_vars

(***************************************************************************)
(* Notions the properties are stated with.                                 *)
(***************************************************************************)
IsPrefix(s, t) == Len(s) <= Len(t) /\ SubSeq(t, 1, Len(s)) = s

\* the steps the last call appended to the step buffer
Appended == SubSeq(lines, Len(before.lines) + 1, Len(lines))

\* the names the last call took from _gensym
Allocated == SubSeq(names, before.gensymCounter + 1, Len(names))

\* the thunks the last call synthesized
NewThunks == SubSeq(thunks, Len(before.thunks) + 1, Len(thunks))

Distinct(s) == \A i, j \in 1..Len(s) : i # j => s[i] # s[j]

LoweringCall == call.op \in {"output", "_generateNode"}

\* the node kind a builder method of the writer lowers
KindOf(op) ==
    CASE op = "many" -> "Many"
      [] op = "many1" -> "Many1"
      [] op = "optional" -> "Optional"
      [] op = "_or" -> "Or"
      [] op = "_not" -> "Not"
      [] op = "lookahead" -> "Lookahead"
      [] op = "bind" -> "Bind"
      [] op = "pred" -> "Predicate"
      [] op = "action" -> "Action"
      [] op = "listpattern" -> "List"
      [] op = "compilePythonExpr" -> "Python"

\* the node kinds the last call was asked to lower
CallKinds ==
    IF call.op = "__init__" THEN {}
    ELSE IF LoweringCall THEN Kinds(call.arg)
    ELSE {KindOf(call.op)}

RECURSIVE Flat(_)
RECURSIVE FlatAll(_)

FlatAll(nodes) == IF nodes = <<>> THEN <<>> ELSE Flat(Head(nodes)) \o FlatAll(Tail(nodes))

\* the nodes of a tree in the order lowering meets them, a non-empty And replaced
\* by its children
Flat(node) ==
    IF node[1] = "And" /\ node[2] # <<>> THEN FlatAll(node[2]) ELSE <<node>>

OneStep(node) == node[1] \in {"Apply", "Exactly"}

\* the position in Flat(node) of the first node that is not lowered to one step, or 0
FirstStop(node) ==
    LET f == Flat(node)
        stops == {i \in 1..Len(f) : ~OneStep(f[i])}
    IN  IF stops = {} THEN 0 ELSE CHOOSE i \in stops : \A j \in stops : i <= j

(***************************************************************************)
(* C1.  Original statement: a lowering call on a tree with no Or (Optional *)
(* is an Or), Many, Many1, Not, Lookahead or Predicate node, List nodes    *)
(* included, synthesizes no thunk.                                         *)
(***************************************************************************)
C1_NoThunkWithoutControlFlow ==
    (CallKinds \cap {"Or", "Optional", "Many", "Many1", "Not", "Lookahead",
                     "Predicate"} = {})
        => thunks = before.thunks

(***************************************************************************)
(* C1 as amended: a lowering call on a tree with no Or, Optional, Many,    *)
(* Many1, Not, Lookahead, Predicate or List node (so Bind, Apply, Exactly, *)
(* And, Action and host-expression nodes only) synthesizes no thunk: no    *)
(* call of _newThunkFor happens.                                           *)
(***************************************************************************)
C1_NoThunkWithoutThunkKinds ==
    (CallKinds \cap {"Or", "Optional", "Many", "Many1", "Not", "Lookahead",
                     "Predicate", "List"} = {})
        => thunks = before.thunks

\* a Bind was lowered on a writer that had synthesized thunks before
C1_Witness ==
    /\ call.op = "bind"
    /\ call.arg[1] # <<>>
    /\ thunks # <<>>
    /\ thunks = before.thunks

(***************************************************************************)
(* C2.  Original statement: when lowering reaches a node whose kind has no *)
(* lowering rule it aborts, output() returns no text and the step buffer   *)
(* is as it was before lowering started.                                   *)
(***************************************************************************)
C2_AbortLeavesBufferUntouched ==
    (LoweringCall /\ ret.err = "AttributeError")
        => (ret.value = None /\ lines = before.lines)

(***************************************************************************)
(* C2 as amended: when lowering reaches a node whose kind has no lowering  *)
(* rule it aborts at once with an AttributeError and returns no text;      *)
(* nothing is appended after the abort, and the step buffer holds what it  *)
(* held before followed by the steps of the nodes lowered earlier.         *)
(***************************************************************************)
C2_AbortKeepsEarlierSteps ==
    LET stop == FirstStop(call.arg)
    IN  (LoweringCall /\ stop > 0 /\ Flat(call.arg)[stop][1] # "And")
            => /\ ret.err = "AttributeError"
               /\ ret.value = None
               /\ IsPrefix(before.lines, lines)
               /\ Len(Appended) = stop - 1
               /\ Len(Allocated) = stop - 1

\* output() aborted on a node without a lowering rule after a sibling was lowered
C2_Witness ==
    /\ call.op = "output"
    /\ ret.err = "AttributeError"
    /\ Len(Appended) = 1

C6_AndConcatenates ==
    (/\ call.op = "_generateNode"
     /\ call.arg[1] = "And"
     /\ Kinds(call.arg) \subseteq {"And", "Apply", "Exactly"})
        => /\ ret.err = NoErr
           /\ IsPrefix(before.lines, lines)
           /\ Len(Appended) = Len(Allocated)
           /\ Appended # <<>>
           /\ ret.value = names[Len(names)]

(***************************************************************************)
(* C7.  Lowering an Or of n > 1 alternatives synthesizes n thunks with     *)
(* distinct names and emits one ordered-choice step after them; an Or of   *)
(* one alternative synthesizes no thunk and yields that alternative.       *)
(***************************************************************************)
C7_OrThunksAndStep ==
    (call.op = "_or" /\ \A i \in 1..Len(call.arg) : call.arg[i] # <<>>)
        => IF Len(call.arg) > 1
           THEN /\ ret.err = NoErr
                /\ Len(NewThunks) = Len(call.arg)
                /\ Distinct(NewThunks)
                /\ Len(Appended) = 1
           ELSE Len(call.arg) = 1
                    => (ret.err = NoErr /\ NewThunks = <<>> /\ ret.value = call.arg[1])

(***************************************************************************)
(* C8.  Lowering Bind(name, exprs) with exprs not empty keeps the elements *)
(* before the last as steps, then stores the value of the last under name  *)
(* in _locals, and yields the stored value.                                *)
(***************************************************************************)
C8_BindStores ==
    (call.op = "bind" /\ call.arg[1] # <<>>)
        => LET exprs == call.arg[1]
               name == call.arg[2]
               n == Len(exprs)
           IN  /\ ret.err = NoErr
               /\ IsPrefix(before.lines \o SubSeq(exprs, 1, n - 1)
                               \o <<"_locals['" \o name \o "'] = " \o exprs[n]>>,
                           lines)

(***************************************************************************)
(* C9.  gensymCounter starts at 0, grows by exactly 1 with every name      *)
(* _gensym hands out and never decreases, and every name handed out        *)
(* differs from every name handed out before.                              *)
(***************************************************************************)
C9_FreshNames ==
    /\ call.op = "__init__" => gensymCounter = 0
    /\ gensymCounter = Len(names)
    /\ gensymCounter >= before.gensymCounter
    /\ Distinct(names)

\* names were handed out for a thunk and for the value of a step
C9_Witness ==
    /\ thunks # <<>>
    /\ lines # <<>>
    /\ gensymCounter >= 2

(***************************************************************************)
(* C10.  _generateNode finds a lowering rule for every node TreeBuilder    *)
(* constructs and returns a value.                                         *)
(***************************************************************************)
C10_ClosedUnderLowering ==
    (call.op = "_generateNode" /\ call.arg \in BuilderNodes)
        => (ret.err = NoErr /\ ret.value # None)

(***************************************************************************)
(* C3.  Grammar assembly is all-or-nothing: a run of makeGrammar that      *)
(* raises leaves sys.modules as it was, and sys.modules changes only in a  *)
(* run in which the source was built, compiled and loaded; that run        *)
(* registers the class with every rule unit.                               *)
(***************************************************************************)
C3_AllOrNothing ==
    call.op = "makeGrammar"
        => /\ ret.err # NoErr => sysModules = before.sysModules
           /\ sysModules # before.sysModules
                  => (ret.err = NoErr /\ compiles(call.arg)
                      /\ {"name", "superclass", "globals"} \subseteq attrs)
           /\ ret.err = NoErr
                  => /\ Module \in DOMAIN sysModules
                     /\ DOMAIN sysModules[Module].units
                            = {call.arg[i][1] : i \in 1..Len(call.arg)}

\* a grammar failed to compile after another had been registered
C3_Witness ==
    /\ call.op = "makeGrammar"
    /\ ret.err = "SyntaxError"
    /\ Module \in DOMAIN sysModules

(***************************************************************************)
(* C4.  Every invocation of a rule unit allocates its own dict, which      *)
(* holds exactly 'self' when the invocation starts; no two invocations     *)
(* share a dict, so a binding stored by one invocation is in no dict of    *)
(* another; and self.locals[name] is the dict of the invocation of name    *)
(* started last.                                                           *)
(***************************************************************************)
C4_FreshScopePerInvocation ==
    /\ \A i, j \in 1..Len(invs) : i # j => invs[i].scope # invs[j].scope
    /\ \A i \in 1..Len(invs) : invs[i].scope \in 1..Len(heap)
    /\ call.op = "rule" => heap[invs[Len(invs)].scope] = ("self" :> "self")
    /\ \A i \in 1..Len(invs) :
           LET d == heap[invs[i].scope]
           IN  /\ "self" \in DOMAIN d
               /\ "d" \in DOMAIN d => d["d"] = "x of " \o ToString(i)
    /\ \A r \in RuleNames :
           LET started == {i \in 1..Len(invs) : invs[i].rule = r}
           IN  IF started = {} THEN r \notin DOMAIN locals
               ELSE /\ r \in DOMAIN locals
                    /\ locals[r] = invs[CHOOSE i \in started :
                                            \A j \in started : j <= i].scope
    /\ DOMAIN locals \subseteq RuleNames

\* a rule was invoked again while an invocation of it that has stored a binding
\* is still running
C4_Witness ==
    /\ call.op = "rule"
    /\ Len(frames) >= 2
    /\ frames[1].rule = frames[2].rule
    /\ "d" \in DOMAIN heap[frames[1].scope]
    /\ locals[frames[2].rule] = frames[2].scope

====
